---- MODULE Spec2Model ----
(***************************************************************************)
(* Model of src/spriteRotation.ts (namespace Rotation): the per-sprite     *)
(* rotation/flip cache, the input guard, the per-tick tracking callbacks   *)
(* and the pixel transform functions.                                      *)
(*                                                                         *)
(* Numbers of the program are IEEE doubles.  The model keeps the part of   *)
(* double arithmetic that decides the results at multiples of 90 degrees:  *)
(* a value is a pair <<H, T>> standing for H/2 + T * 2^-53 / TinyScale,    *)
(* H the exact half-integer part, T the residue left by Math.cos and       *)
(* Math.sin (cos(90 deg) is 6.1e-17, not 0), and every sum is rounded to   *)
(* the double grid of its magnitude, ties to even.                         *)
(***************************************************************************)
EXTENDS Integers, Sequences, FiniteSets, TLC

\* ------------------------------------------------------------------ bounds
\* images given to the pure functions are at most MaxDim x MaxDim
MaxDim == 2
\* pixel values are 0 (transparent) .. MaxColor
MaxColor == 1
\* angle arguments are 90 * k for k in -1 .. MaxTurns
MaxTurns == 4
\* margin arguments are -1 .. MaxMargin
MaxMargin == 1
\* at most MaxCallbacks callbacks are given to game.onUpdate
MaxCallbacks == 2
\* the pure functions are applied to their own results MaxChain times
MaxChain == 2

\* ------------------------------------------------- double arithmetic model
\* units of T per 2^-53 (the half ulp of 1.0)
TinyScale == 200000
\* Math.cos(90 * Math.PI / 180) = 6.123233995736766e-17 in units of T
CosQuarter == 110306

Abs(n) == IF n < 0 THEN 0 - n ELSE n

RECURSIVE Pow2Floor(_)
\* the largest power of two that is at most M (M >= 1)
Pow2Floor(M) == IF M < 2 THEN 1 ELSE 2 * Pow2Floor(M \div 2)

\* t / g rounded to the nearest integer, ties to the even one
RoundHalfEven(t, g) ==
  LET lo == t \div g
      rem == t - lo * g
  IN IF 2 * rem < g THEN lo
     ELSE IF 2 * rem > g THEN lo + 1
     ELSE IF lo % 2 = 0 THEN lo ELSE lo + 1

\* round the exact value H/2 + T to the nearest double
FRoundPos(M, t) ==
  LET p == Pow2Floor(M)
      g == IF t < 0 /\ p = M THEN (p * TinyScale) \div 2 ELSE p * TinyScale
  IN <<M, RoundHalfEven(t, g) * g>>

FRound(v) ==
  IF v[1] = 0 THEN v
  ELSE IF v[1] > 0 THEN FRoundPos(v[1], v[2])
  ELSE LET r == FRoundPos(0 - v[1], 0 - v[2]) IN <<0 - r[1], 0 - r[2]>>

\* a + b of two doubles
FAdd(a, b) == FRound(<<a[1] + b[1], a[2] + b[2]>>)

\* m * t, m the exact number halves/2, t a value of Cos or Sin
FMul(halves, t) ==
  IF t[1] # 0 THEN <<halves * (t[1] \div 2), 0>>
  ELSE <<0, (halves * t[2]) \div 2>>

\* Math.abs
FAbs(v) == IF v[1] < 0 \/ (v[1] = 0 /\ v[2] < 0) THEN <<0 - v[1], 0 - v[2]>> ELSE v

\* Math.ceil of a value >= 0
MathCeil(v) ==
  IF v[2] > 0 THEN (v[1] \div 2) + 1 ELSE (v[1] + 1) \div 2

\* Math.round: the nearest integer, ties towards +infinity
MathRound(v) ==
  IF v[2] < 0 /\ (v[1] + 1) % 2 = 0 THEN ((v[1] + 1) \div 2) - 1
  ELSE (v[1] + 1) \div 2

\* Math.cos(angleDegrees * Math.PI / 180) for angleDegrees a multiple of 90
\* with |angleDegrees| <= 720
Cos(angleDegrees) ==
  LET k == angleDegrees \div 90
      q == k % 4
  IN CASE q = 0 -> <<2, 0>>
       [] q = 1 -> <<0, k * CosQuarter>>
       [] q = 2 -> <<0 - 2, 0>>
       [] q = 3 -> <<0, 0 - (k * CosQuarter)>>

\* Math.sin(angleDegrees * Math.PI / 180), same domain
Sin(angleDegrees) ==
  LET k == angleDegrees \div 90
      q == k % 4
  IN CASE q = 0 -> <<0, 0 - (k * CosQuarter)>>
       [] q = 1 -> <<2, 0>>
       [] q = 2 -> <<0, k * CosQuarter>>
       [] q = 3 -> <<0 - 2, 0>>

\* ((angle % 360) + 360) % 360 with the remainder of JavaScript, which has
\* the sign of the dividend
JsRem(a, n) == IF a >= 0 THEN a % n ELSE 0 - ((0 - a) % n)

\* as Normalize, without the second remainder that lifts a negative value
NormalizeOnce(angle) == JsRem(angle, 360)

Normalize(angle) == JsRem(JsRem(angle, 360) + 360, 360)

\* ------------------------------------------------------------------ images
\* an absent image, table entry or return value
Null == [null |-> TRUE]
\* an absent sprite argument
NoSprite == 0

Coords(w, h) == (0 .. (w - 1)) \X (0 .. (h - 1))

\* image.create(w, h) filled by the pixel function f; ref is the identity of
\* the new object
MkImage(ref, w, h, f(_, _)) ==
  [ref |-> ref, width |-> w, height |-> h,
   px |-> [p \in Coords(w, h) |-> f(p[1], p[2])]]

\* img.clone()
Clone(img, ref) == [img EXCEPT !.ref = ref]

\* img.getPixel(x, y)
GetPixel(img, x, y) ==
  IF x >= 0 /\ x < img.width /\ y >= 0 /\ y < img.height THEN img.px[<<x, y>>] ELSE 0

SamePixels(a, b) ==
  a.width = b.width /\ a.height = b.height /\ a.px = b.px

\* as flipImageVertically, mirrored from left to right
flipImageHorizontally(img, ref) ==
  LET w == img.width
      h == img.height
  IN MkImage(ref, w, h, LAMBDA x, y : img.px[<<w - 1 - x, y>>])

flipImageVertically(img, ref) ==
  LET w == img.width
      h == img.height
  IN MkImage(ref, w, h, LAMBDA x, y : img.px[<<x, h - 1 - y>>])

\* the inverse mapping shared by rotateImage and rotateImageWithMargin:
\* the source pixel sampled for destination pixel (x, y)
SourceX(x, y, dw, dh, sw, cos, sin) ==
  MathRound(FAdd(FAdd(FMul(2 * x - dw, cos), FMul(2 * y - dh, sin)), <<sw, 0>>))

SourceY(x, y, dw, dh, sh, cos, sin) ==
  MathRound(FAdd(FAdd(FMul(0 - (2 * x - dw), sin), FMul(2 * y - dh, cos)), <<sh, 0>>))

\* The geometry of a rotation depends only on the angle and the two sizes.
\* It is computed once for every angle and size that occurs: the sides are
\* at most MaxSide. rotateImage is given a stored rotation: 90, 180 or 270
\* (0 and -90 are kept for variants of setRotation that store them);
\* rotateImageWithMargin is given a normalized angle or a bearing plus an
\* offset, from -90 - 90 to 180 + 90 * MaxTurns, on images that were not
\* rotated before
MaxSide == MaxDim + MaxChain
RotateTableAngles == {90 * k : k \in (0 - 1) .. 3}
MarginTableAngles == {90 * k : k \in (0 - 2) .. (MaxTurns + 2)}

\* lines 199-222 of rotateImage: the size of the output and, for every
\* output pixel, the source pixel (sx, sy)
RotateGeometry(angleDegrees, w, h) ==
  LET cos == Cos(angleDegrees)
      sin == Sin(angleDegrees)
      nw == MathCeil(FAdd(FAbs(FMul(2 * w, cos)), FAbs(FMul(2 * h, sin))))
      nh == MathCeil(FAdd(FAbs(FMul(2 * w, sin)), FAbs(FMul(2 * h, cos))))
  IN [nw |-> nw, nh |-> nh,
      src |-> [p \in Coords(nw, nh) |->
                 <<SourceX(p[1], p[2], nw, nh, w, cos, sin),
                   SourceY(p[1], p[2], nw, nh, h, cos, sin)>>]]

RotateTable ==
  CHOOSE t \in {[k \in RotateTableAngles \X (1 .. MaxSide) \X (1 .. MaxSide) |->
                   RotateGeometry(k[1], k[2], k[3])]} : t = t

rotateImage(img, angleDegrees, ref) ==
  LET g == RotateTable[<<angleDegrees, img.width, img.height>>]
  IN MkImage(ref, g.nw, g.nh,
             LAMBDA x, y : GetPixel(img, g.src[<<x, y>>][1], g.src[<<x, y>>][2]))

\* lines 234-257 of rotateImageWithMargin: the source pixel of every pixel
\* of the (sw + 2 margin) x (sh + 2 margin) output
MarginGeometry(angleDegrees, sw, sh, margin) ==
  LET cos == Cos(angleDegrees)
      sin == Sin(angleDegrees)
      dw == sw + margin * 2
      dh == sh + margin * 2
  IN [dw |-> dw, dh |-> dh,
      src |-> [p \in Coords(dw, dh) |->
                 <<SourceX(p[1], p[2], dw, dh, sw, cos, sin),
                   SourceY(p[1], p[2], dw, dh, sh, cos, sin)>>]]

MarginTable ==
  CHOOSE t \in {[k \in MarginTableAngles \X (1 .. MaxDim) \X (1 .. MaxDim)
                        \X (0 .. MaxMargin) |->
                   MarginGeometry(k[1], k[2], k[3], k[4])]} : t = t

rotateImageWithMargin(img, angleDegrees, margin, ref) ==
  LET g == MarginTable[<<angleDegrees, img.width, img.height, margin>>]
  IN MkImage(ref, g.dw, g.dh,
             LAMBDA x, y : GetPixel(img, g.src[<<x, y>>][1], g.src[<<x, y>>][2]))

\* ------------------------------------------------------ program state
VARIABLES
  spriteData,              \* sprite id -> SpriteRotationData, or Null
  lastValidLeftState,
  lastValidRightState,
  inputProtectionEnabled,
  sprites,                 \* host: sprite id -> [image, x, y]
  updateHandlers,          \* host: the callbacks given to game.onUpdate
  lastCall,                \* the operation that ran last, with its arguments
  result                   \* the value it returned (Null when none)

vars == <<spriteData, lastValidLeftState, lastValidRightState,
          inputProtectionEnabled, sprites, updateHandlers, lastCall, result>>

Sprites == {1, 2}

\* the bitmaps the two sprites are created with: 3 x 2 and 2 x 2, every
\* pixel of its own colour
StartPixels(id) ==
  IF id = 1 THEN [width |-> 3, height |-> 2,
                  px |-> [p \in Coords(3, 2) |-> 1 + p[1] + 3 * p[2]]]
  ELSE [width |-> 2, height |-> 2, px |-> [p \in Coords(2, 2) |-> 1 + p[1] + 2 * p[2]]]

\* host positions: the origin and the four points of the axes
Positions == {<<0, 0>>, <<10, 0>>, <<0, 10>>, <<0 - 10, 0>>, <<0, 0 - 10>>}

Angles == {90 * k : k \in (0 - 1) .. MaxTurns}

\* ------------------------------------------------------ object identity
\* every image object has a ref; a new object gets a ref that no object of
\* the state before the call, and no object made earlier in the call, has
RefsOfData(d) ==
  IF d = Null THEN {}
  ELSE {d.originalImage.ref} \cup
       (IF d.transformedImage = Null THEN {} ELSE {d.transformedImage.ref})

\* the refs of the objects the table and the host hold
LiveRefs ==
  UNION {RefsOfData(spriteData[s]) : s \in Sprites}
    \cup {sprites[s].image.ref : s \in Sprites}

\* a ref is <<owner, n>>: the sprite the object was made for (NoSprite for
\* an image made from an image argument) and a number
Fresh(used, owner) ==
  <<owner, CHOOSE n \in 1 .. (Cardinality(used) + 1) :
             /\ <<owner, n>> \notin used
             /\ \A m \in 1 .. (n - 1) : <<owner, m>> \in used>>

\* the state a call works on: the table, the host's sprites, the refs in
\* use, and whether the host resets the position of a sprite whose image is
\* replaced
World(reset) ==
  [data |-> spriteData, spr |-> sprites, used |-> LiveRefs, reset |-> reset]

\* ------------------------------------------------------------ host sprite
\* sprite.setImage(img): some hosts reset the position, to the centre of
\* the screen
ScreenCentre == <<80, 60>>

setImage(sp, img, reset) ==
  [image |-> img, x |-> IF reset THEN ScreenCentre[1] ELSE sp.x,
   y |-> IF reset THEN ScreenCentre[2] ELSE sp.y]

setPosition(sp, x, y) == [sp EXCEPT !.x = x, !.y = y]

\* ------------------------------------------------------------ operations
\* as applyTransformation, starting from the image the sprite displays
applyTransformationCompounding(st, id) ==
  LET data == st.data[id]
      sprite == st.spr[id]
      x == sprite.x
      y == sprite.y
      ref == Fresh(st.used, id)
      img0 == Clone(sprite.image, ref)
      img1 == IF data.isFlippedY THEN flipImageVertically(img0, ref) ELSE img0
      img == IF data.currentRotation # 0
             THEN rotateImage(img1, data.currentRotation, ref) ELSE img1
  IN [st EXCEPT !.data[id].transformedImage = img,
                !.spr[id] = setPosition(setImage(sprite, img, st.reset), x, y),
                !.used = @ \cup {ref}]

\* as applyTransformation, rotating before flipping
applyTransformationRotateFirst(st, id) ==
  LET data == st.data[id]
      sprite == st.spr[id]
      x == sprite.x
      y == sprite.y
      ref == Fresh(st.used, id)
      img0 == Clone(data.originalImage, ref)
      img1 == IF data.currentRotation # 0
              THEN rotateImage(img0, data.currentRotation, ref) ELSE img0
      img == IF data.isFlippedY THEN flipImageVertically(img1, ref) ELSE img1
  IN [st EXCEPT !.data[id].transformedImage = img,
                !.spr[id] = setPosition(setImage(sprite, img, st.reset), x, y),
                !.used = @ \cup {ref}]

\* as applyTransformation, without sprite.setPosition after sprite.setImage
applyTransformationNoRestore(st, id) ==
  LET data == st.data[id]
      sprite == st.spr[id]
      ref == Fresh(st.used, id)
      img0 == Clone(data.originalImage, ref)
      img1 == IF data.isFlippedY THEN flipImageVertically(img0, ref) ELSE img0
      img == IF data.currentRotation # 0
             THEN rotateImage(img1, data.currentRotation, ref) ELSE img1
  IN [st EXCEPT !.data[id].transformedImage = img,
                !.spr[id] = setImage(sprite, img, st.reset),
                !.used = @ \cup {ref}]

\* as applyTransformation, keeping the output as the new original
applyTransformationReplacingOriginal(st, id) ==
  LET data == st.data[id]
      sprite == st.spr[id]
      x == sprite.x
      y == sprite.y
      ref == Fresh(st.used, id)
      img0 == Clone(data.originalImage, ref)
      img1 == IF data.isFlippedY THEN flipImageVertically(img0, ref) ELSE img0
      img == IF data.currentRotation # 0
             THEN rotateImage(img1, data.currentRotation, ref) ELSE img1
  IN [st EXCEPT !.data[id].transformedImage = img,
                !.data[id].originalImage = img,
                !.spr[id] = setPosition(setImage(sprite, img, st.reset), x, y),
                !.used = @ \cup {ref}]

applyTransformation(st, id) ==
  LET data == st.data[id]
      sprite == st.spr[id]
      x == sprite.x
      y == sprite.y
      ref == Fresh(st.used, id)
      img0 == Clone(data.originalImage, ref)
      img1 == IF data.isFlippedY THEN flipImageVertically(img0, ref) ELSE img0
      img == IF data.currentRotation # 0
             THEN rotateImage(img1, data.currentRotation, ref) ELSE img1
  IN [st EXCEPT !.data[id].transformedImage = img,
                !.spr[id] = setPosition(setImage(sprite, img, st.reset), x, y),
                !.used = @ \cup {ref}]

\* lines 44-50 and 73-79: the entry made on first touch
EnsureData(st, id) ==
  IF st.data[id] # Null THEN st
  ELSE LET ref == Fresh(st.used, id)
       IN [st EXCEPT !.data[id] = [originalImage |-> Clone(st.spr[id].image, ref),
                                   currentRotation |-> 0,
                                   isFlippedY |-> FALSE,
                                   transformedImage |-> Null],
                     !.used = @ \cup {ref}]

\* as setRotation, without the comparison with the current rotation
setRotationAlways(st, sprite, angle) ==
  IF sprite = NoSprite THEN st
  ELSE LET st1 == EnsureData(st, sprite)
           normalizedAngle == Normalize(angle)
       IN applyTransformation(
            [st1 EXCEPT !.data[sprite].currentRotation = normalizedAngle], sprite)

\* as setRotation, storing the new rotation without recomputing the image
setRotationStoreOnly(st, sprite, angle) ==
  IF sprite = NoSprite THEN st
  ELSE LET st1 == EnsureData(st, sprite)
           normalizedAngle == Normalize(angle)
       IN [st1 EXCEPT !.data[sprite].currentRotation = normalizedAngle]

\* as setRotation, held back by input protection the way setVerticalFlip is
\* while both inputs are pressed
setRotationGated(st, sprite, angle) ==
  IF sprite = NoSprite \/ inputProtectionEnabled THEN st
  ELSE LET st1 == EnsureData(st, sprite)
           normalizedAngle == Normalize(angle)
       IN IF st1.data[sprite].currentRotation # normalizedAngle
          THEN applyTransformation(
                 [st1 EXCEPT !.data[sprite].currentRotation = normalizedAngle], sprite)
          ELSE st1

setRotation(st, sprite, angle) ==
  IF sprite = NoSprite THEN st
  ELSE LET st1 == EnsureData(st, sprite)
           normalizedAngle == Normalize(angle)
       IN IF st1.data[sprite].currentRotation # normalizedAngle
          THEN applyTransformation(
                 [st1 EXCEPT !.data[sprite].currentRotation = normalizedAngle], sprite)
          ELSE st1

\* as shouldProcessTransformation, with both inputs pressed settled by the
\* last valid input: allowed once a single direction has been seen
shouldProcessTransformationFromHistory(leftPressed, rightPressed) ==
  IF ~inputProtectionEnabled
  THEN [ok |-> TRUE, left |-> lastValidLeftState, right |-> lastValidRightState]
  ELSE IF leftPressed /\ rightPressed
  THEN [ok |-> lastValidLeftState \/ lastValidRightState,
        left |-> lastValidLeftState, right |-> lastValidRightState]
  ELSE IF leftPressed /\ ~rightPressed
  THEN [ok |-> TRUE, left |-> TRUE, right |-> FALSE]
  ELSE IF rightPressed /\ ~leftPressed
  THEN [ok |-> TRUE, left |-> FALSE, right |-> TRUE]
  ELSE [ok |-> TRUE, left |-> lastValidLeftState, right |-> lastValidRightState]

\* the decision, and the values of lastValidLeftState and lastValidRightState
\* after it; leftPressed and rightPressed are what the controller reports
shouldProcessTransformation(leftPressed, rightPressed) ==
  IF ~inputProtectionEnabled
  THEN [ok |-> TRUE, left |-> lastValidLeftState, right |-> lastValidRightState]
  ELSE IF leftPressed /\ rightPressed
  THEN [ok |-> FALSE, left |-> lastValidLeftState, right |-> lastValidRightState]
  ELSE IF leftPressed /\ ~rightPressed
  THEN [ok |-> TRUE, left |-> TRUE, right |-> FALSE]
  ELSE IF rightPressed /\ ~leftPressed
  THEN [ok |-> TRUE, left |-> FALSE, right |-> TRUE]
  ELSE [ok |-> TRUE, left |-> lastValidLeftState, right |-> lastValidRightState]

\* as setVerticalFlip, with the entry made before the guard is asked
setVerticalFlipEntryFirst(st, sprite, flipped, go) ==
  IF sprite = NoSprite THEN st
  ELSE LET st1 == EnsureData(st, sprite)
       IN IF ~go.ok THEN st1
          ELSE IF st1.data[sprite].isFlippedY # flipped
          THEN applyTransformation([st1 EXCEPT !.data[sprite].isFlippedY = flipped],
                                   sprite)
          ELSE st1

\* setVerticalFlip once the guard has answered
setVerticalFlip(st, sprite, flipped, go) ==
  IF sprite = NoSprite \/ ~go.ok THEN st
  ELSE LET st1 == EnsureData(st, sprite)
       IN IF st1.data[sprite].isFlippedY # flipped
          THEN applyTransformation([st1 EXCEPT !.data[sprite].isFlippedY = flipped],
                                   sprite)
          ELSE st1

\* Math.atan2(dy, dx) * (180 / Math.PI) for a direction along an axis
Atan2Deg(dy, dx) ==
  CASE dy = 0 /\ dx >= 0 -> 0
    [] dy > 0 /\ dx = 0 -> 90
    [] dy = 0 /\ dx < 0 -> 180
    [] dy < 0 /\ dx = 0 -> 0 - 90

\* as rotateTowardsWithOffset, with the arguments of Math.atan2 exchanged
rotateTowardsWithOffsetSwapped(st, sprite1, sprite2, offset) ==
  IF sprite1 = NoSprite \/ sprite2 = NoSprite THEN st
  ELSE LET dx == st.spr[sprite2].x - st.spr[sprite1].x
           dy == st.spr[sprite2].y - st.spr[sprite1].y
           angle == Atan2Deg(dx, dy) + offset
       IN setRotation(st, sprite1, angle)

rotateTowardsWithOffset(st, sprite1, sprite2, offset) ==
  IF sprite1 = NoSprite \/ sprite2 = NoSprite THEN st
  ELSE LET dx == st.spr[sprite2].x - st.spr[sprite1].x
           dy == st.spr[sprite2].y - st.spr[sprite1].y
           angle == Atan2Deg(dy, dx) + offset
       IN setRotation(st, sprite1, angle)

\* as getRotatedImage, handing out the cached output itself
getRotatedImageShared(st, sprite) ==
  IF sprite = NoSprite THEN Null
  ELSE LET data == st.data[sprite]
           ref == Fresh(st.used, sprite)
       IN IF data # Null /\ data.transformedImage # Null
          THEN data.transformedImage
          ELSE LET src0 == IF data # Null THEN Clone(data.originalImage, ref)
                           ELSE Clone(st.spr[sprite].image, ref)
                   src1 == IF data # Null /\ data.isFlippedY
                           THEN flipImageVertically(src0, ref) ELSE src0
               IN IF data # Null /\ data.currentRotation # 0
                  THEN rotateImage(src1, data.currentRotation, ref) ELSE src1

getRotatedImage(st, sprite) ==
  IF sprite = NoSprite THEN Null
  ELSE LET data == st.data[sprite]
           ref == Fresh(st.used, sprite)
       IN IF data # Null /\ data.transformedImage # Null
          THEN Clone(data.transformedImage, ref)
          ELSE LET src0 == IF data # Null THEN Clone(data.originalImage, ref)
                           ELSE Clone(st.spr[sprite].image, ref)
                   src1 == IF data # Null /\ data.isFlippedY
                           THEN flipImageVertically(src0, ref) ELSE src0
               IN IF data # Null /\ data.currentRotation # 0
                  THEN rotateImage(src1, data.currentRotation, ref) ELSE src1

Max(a, b) == IF a > b THEN a ELSE b

\* as rotateImageByDegrees, with the margin made positive by its magnitude
rotateImageByDegreesAbsMargin(img, angle, margin, ref) ==
  IF img = Null THEN Null
  ELSE LET a == Normalize(angle)
       IN rotateImageWithMargin(img, a, Abs(margin), ref)

rotateImageByDegrees(img, angle, margin, ref) ==
  IF img = Null THEN Null
  ELSE LET a == Normalize(angle)
       IN rotateImageWithMargin(img, a, Max(0, margin), ref)

\* as rotateImageFromToWithOffset, without the case of equal points:
\* Math.atan2(0, 0) is 0
rotateImageFromToWithOffsetAlwaysBearing(img, x1, y1, x2, y2, offset, margin, ref) ==
  IF img = Null THEN Null
  ELSE LET dx == x2 - x1
           dy == y2 - y1
       IN rotateImageWithMargin(img, Atan2Deg(dy, dx) + offset, Max(0, margin), ref)

rotateImageFromToWithOffset(img, x1, y1, x2, y2, offset, margin, ref) ==
  IF img = Null THEN Null
  ELSE LET dx == x2 - x1
           dy == y2 - y1
       IN IF dx = 0 /\ dy = 0 THEN Clone(img, ref)
          ELSE rotateImageWithMargin(img, Atan2Deg(dy, dx) + offset, Max(0, margin), ref)

\* as RunHandler, aiming at the target without the offset
RunHandlerNoOffset(st, h) ==
  IF h.sprite1 = NoSprite \/ h.sprite2 = NoSprite THEN st
  ELSE rotateTowardsWithOffset(st, h.sprite1, h.sprite2, 0)

\* the callback registered by continuouslyRotateTowardsWithOffset (lines 107-110)
RunHandler(st, h) ==
  IF h.sprite1 = NoSprite \/ h.sprite2 = NoSprite THEN st
  ELSE rotateTowardsWithOffset(st, h.sprite1, h.sprite2, h.offset)

\* as RunHandlers, with only the callback registered last being run
RunLastHandler(st, hs) ==
  IF hs = <<>> THEN st ELSE RunHandler(st, hs[Len(hs)])

RECURSIVE RunHandlers(_, _)
\* one game update: the registered callbacks in registration order
RunHandlers(st, hs) ==
  IF hs = <<>> THEN st ELSE RunHandlers(RunHandler(st, Head(hs)), Tail(hs))

\* ----------------------------------------------------------------- inputs
SpriteArgs == Sprites \cup {NoSprite}

\* offsets given to the tracking operations
Offsets == {0, 90}

Margins == (0 - 1) .. MaxMargin

\* ------------------------------------------------------------------- Init
StartImage(s) ==
  [ref |-> <<s, 1>>, width |-> StartPixels(s).width, height |-> StartPixels(s).height,
   px |-> StartPixels(s).px]

Init ==
  /\ spriteData = [s \in Sprites |-> Null]
  /\ lastValidLeftState = FALSE
  /\ lastValidRightState = FALSE
  /\ inputProtectionEnabled = FALSE
  /\ sprites = [s \in Sprites |-> [image |-> StartImage(s), x |-> 0, y |-> 0]]
  /\ updateHandlers = <<>>
  /\ lastCall = [op |-> "init"]
  /\ result = Null

\* ---------------------------------------------------------------- actions
CallSetRotation(sprite, angle) ==
  \E reset \in BOOLEAN :
    \E st \in {setRotation(World(reset), sprite, angle)} :
       /\ spriteData' = st.data
       /\ sprites' = st.spr
       /\ lastCall' = [op |-> "setRotation", sprite |-> sprite, angle |-> angle]
       /\ result' = Null
       /\ UNCHANGED <<lastValidLeftState, lastValidRightState,
                      inputProtectionEnabled, updateHandlers>>

CallSetVerticalFlip(sprite, flipped, leftPressed, rightPressed) ==
  \E reset \in BOOLEAN :
    LET go == IF sprite = NoSprite
              THEN [ok |-> FALSE, left |-> lastValidLeftState,
                    right |-> lastValidRightState]
              ELSE shouldProcessTransformation(leftPressed, rightPressed)
        st == setVerticalFlip(World(reset), sprite, flipped, go)
        \* the controller is read only when protection is on (line 17)
        polled == sprite # NoSprite /\ inputProtectionEnabled
        \* the flip flag and the displayed image the call found
        wasFlipped == /\ sprite # NoSprite
                      /\ spriteData[sprite] # Null
                      /\ spriteData[sprite].isFlippedY
        shown == IF sprite = NoSprite THEN Null ELSE sprites[sprite].image
    IN /\ spriteData' = st.data
       /\ sprites' = st.spr
       /\ lastValidLeftState' = go.left
       /\ lastValidRightState' = go.right
       /\ lastCall' = [op |-> "setVerticalFlip", sprite |-> sprite,
                       flipped |-> flipped, allowed |-> go.ok,
                       was |-> wasFlipped, shown |-> shown,
                       left |-> polled /\ leftPressed,
                       right |-> polled /\ rightPressed]
       /\ result' = Null
       /\ UNCHANGED <<inputProtectionEnabled, updateHandlers>>

CallRotateTowardsWithOffset(sprite1, sprite2, offset) ==
  \E reset \in BOOLEAN :
    \E st \in {rotateTowardsWithOffset(World(reset), sprite1, sprite2, offset)} :
       /\ spriteData' = st.data
       /\ sprites' = st.spr
       /\ lastCall' = [op |-> "rotateTowardsWithOffset", sprite |-> sprite1,
                       sprite2 |-> sprite2, angle |-> offset]
       /\ result' = Null
       /\ UNCHANGED <<lastValidLeftState, lastValidRightState,
                      inputProtectionEnabled, updateHandlers>>

\* as CallContinuouslyRotateTowardsWithOffset, registering the callback
\* before the sprites are looked at
CallContinuouslyRegisterFirst(sprite1, sprite2, offset) ==
  \E reset \in BOOLEAN :
    LET st == rotateTowardsWithOffset(World(reset), sprite1, sprite2, offset)
    IN /\ Len(updateHandlers) < MaxCallbacks
       /\ spriteData' = st.data
       /\ sprites' = st.spr
       /\ updateHandlers' =
            Append(updateHandlers,
                   [sprite1 |-> sprite1, sprite2 |-> sprite2, offset |-> offset])
       /\ lastCall' = [op |-> "continuouslyRotateTowardsWithOffset",
                       sprite |-> sprite1, sprite2 |-> sprite2, angle |-> offset]
       /\ result' = Null
       /\ UNCHANGED <<lastValidLeftState, lastValidRightState,
                      inputProtectionEnabled>>

CallContinuouslyRotateTowardsWithOffset(sprite1, sprite2, offset) ==
  \E reset \in BOOLEAN :
    LET absent == sprite1 = NoSprite \/ sprite2 = NoSprite
        st == rotateTowardsWithOffset(World(reset), sprite1, sprite2, offset)
    IN /\ absent \/ Len(updateHandlers) < MaxCallbacks
       /\ spriteData' = st.data
       /\ sprites' = st.spr
       /\ updateHandlers' =
            IF absent THEN updateHandlers
            ELSE Append(updateHandlers,
                        [sprite1 |-> sprite1, sprite2 |-> sprite2, offset |-> offset])
       /\ lastCall' = [op |-> "continuouslyRotateTowardsWithOffset",
                       sprite |-> sprite1, sprite2 |-> sprite2, angle |-> offset]
       /\ result' = Null
       /\ UNCHANGED <<lastValidLeftState, lastValidRightState,
                      inputProtectionEnabled>>

CallGetRotatedImage(sprite) ==
  /\ result' = getRotatedImage(World(FALSE), sprite)
  /\ lastCall' = [op |-> "getRotatedImage", sprite |-> sprite]
  /\ UNCHANGED <<spriteData, sprites, lastValidLeftState, lastValidRightState,
                 inputProtectionEnabled, updateHandlers>>

\* the object an image argument is: a new image is none of the live objects
\* and not the argument
RefsOfArg(img) == IF img = Null THEN {} ELSE {img.ref}

CallRotateImageByDegrees(img, angle, margin) ==
  /\ result' = rotateImageByDegrees(img, angle, margin,
                                    Fresh(LiveRefs \cup RefsOfArg(img), NoSprite))
  /\ lastCall' = [op |-> "rotateImageByDegrees", img |-> img, angle |-> angle,
                  margin |-> margin]
  /\ UNCHANGED <<spriteData, sprites, lastValidLeftState, lastValidRightState,
                 inputProtectionEnabled, updateHandlers>>

CallRotateImageFromToWithOffset(img, from, to, offset, margin) ==
  /\ result' = rotateImageFromToWithOffset(img, from[1], from[2], to[1], to[2],
                                           offset, margin,
                                           Fresh(LiveRefs \cup RefsOfArg(img), NoSprite))
  /\ lastCall' = [op |-> "rotateImageFromToWithOffset", img |-> img, from |-> from,
                  to |-> to, angle |-> offset, margin |-> margin]
  /\ UNCHANGED <<spriteData, sprites, lastValidLeftState, lastValidRightState,
                 inputProtectionEnabled, updateHandlers>>

CallEnableInputProtection ==
  /\ inputProtectionEnabled' = TRUE
  /\ lastCall' = [op |-> "enableInputProtection"]
  /\ result' = Null
  /\ UNCHANGED <<spriteData, sprites, lastValidLeftState, lastValidRightState,
                 updateHandlers>>

\* one game update of the host: every registered callback runs
Tick ==
  \E reset \in BOOLEAN :
    \E st \in {RunHandlers(World(reset), updateHandlers)} :
       /\ updateHandlers # <<>>
       /\ spriteData' = st.data
       /\ sprites' = st.spr
       /\ lastCall' = [op |-> "tick"]
       /\ result' = Null
       /\ UNCHANGED <<lastValidLeftState, lastValidRightState,
                      inputProtectionEnabled, updateHandlers>>

\* the host moves a sprite
MoveSprite(s, pos) ==
  /\ <<sprites[s].x, sprites[s].y>> # pos
  /\ sprites' = [sprites EXCEPT ![s].x = pos[1], ![s].y = pos[2]]
  /\ lastCall' = [op |-> "move"]
  /\ result' = Null
  /\ UNCHANGED <<spriteData, lastValidLeftState, lastValidRightState,
                 inputProtectionEnabled, updateHandlers>>

\* -------------------------------------------------------- specifications
\* Spec: the table and the input guard; the game rotates and flips both
\* sprites and reads their images back
SetRotationArgs(subjects) == (subjects \X Angles) \cup {<<NoSprite, 90>>}

SetVerticalFlipArgs(subjects, inputs) ==
  (subjects \X BOOLEAN \X inputs) \cup {<<NoSprite, TRUE, <<FALSE, FALSE>>>>}

Next ==
  \/ \E a \in SetRotationArgs(Sprites) : CallSetRotation(a[1], a[2])
  \/ \E a \in SetVerticalFlipArgs(Sprites, BOOLEAN \X BOOLEAN) :
       CallSetVerticalFlip(a[1], a[2], a[3][1], a[3][2])
  \/ \E s \in SpriteArgs : CallGetRotatedImage(s)
  \/ CallEnableInputProtection

Spec == Init /\ [][Next]_vars

\* SpecTrack: every operation that takes a sprite or an image, with the
\* guard left off; the game rotates, flips and aims sprite 1, sprite 2 is
\* the target and the host moves it along the axes
Subjects == {1}
Targets == {2}

RotateTowardsArgs ==
  (Subjects \X Sprites \X Offsets)
    \cup {<<NoSprite, 2, 0>>, <<1, NoSprite, 0>>, <<NoSprite, NoSprite, 0>>}

ContinuousArgs ==
  (Subjects \X Targets \X Offsets)
    \cup {<<NoSprite, 2, 0>>, <<1, NoSprite, 0>>, <<NoSprite, NoSprite, 0>>}

NextTrack ==
  \/ \E a \in SetRotationArgs(Subjects) : CallSetRotation(a[1], a[2])
  \/ \E a \in SetVerticalFlipArgs(Subjects, {<<FALSE, FALSE>>}) :
       CallSetVerticalFlip(a[1], a[2], a[3][1], a[3][2])
  \/ \E a \in RotateTowardsArgs : CallRotateTowardsWithOffset(a[1], a[2], a[3])
  \/ \E a \in ContinuousArgs :
       CallContinuouslyRotateTowardsWithOffset(a[1], a[2], a[3])
  \/ \E s \in SpriteArgs : CallGetRotatedImage(s)
  \/ \E img \in {Null, sprites[2].image} : CallRotateImageByDegrees(img, 90, 0 - 1)
  \/ \E img \in {Null, sprites[2].image} :
       CallRotateImageFromToWithOffset(img, <<0, 0>>, <<0, 10>>, 90, MaxMargin)
  \/ Tick
  \/ \E s \in Targets, pos \in Positions : MoveSprite(s, pos)

SpecTrack == Init /\ [][NextTrack]_vars

\* SpecGuard: the operations that write the table, with the input guard: the
\* game rotates, flips and aims sprite 1 under every state of the controller
\* and may turn input protection on; the host moves sprite 2 and ticks. The
\* registered callbacks all aim with offset 0 (SpecTrack varies the offset)
NextGuard ==
  \/ CallEnableInputProtection
  \/ \E a \in SetRotationArgs(Subjects) : CallSetRotation(a[1], a[2])
  \/ \E a \in SetVerticalFlipArgs(Subjects, BOOLEAN \X BOOLEAN) :
       CallSetVerticalFlip(a[1], a[2], a[3][1], a[3][2])
  \/ \E a \in RotateTowardsArgs : CallRotateTowardsWithOffset(a[1], a[2], a[3])
  \/ \E a \in ContinuousArgs :
       a[3] = 0 /\ CallContinuouslyRotateTowardsWithOffset(a[1], a[2], a[3])
  \/ Tick
  \/ \E s \in Targets, pos \in Positions : MoveSprite(s, pos)

SpecGuard == Init /\ [][NextGuard]_vars

\* SpecImage: the pixel functions on the bitmaps of at most MaxDim x MaxDim
\* pixels, applied to their own results up to MaxChain times, and their use
\* by setRotation and setVerticalFlip on sprite 1. A bitmap is any set of
\* opaque pixels drawn in one colour of 1 .. MaxColor: the functions copy a
\* pixel value and compare it with 0 only
Bitmaps ==
  UNION {{[ref |-> <<NoSprite, 1>>, width |-> w, height |-> h,
           px |-> [p \in Coords(w, h) |-> IF p \in ink THEN c ELSE 0]] :
            ink \in SUBSET Coords(w, h), c \in 1 .. MaxColor} :
         <<w, h>> \in (1 .. MaxDim) \X (1 .. MaxDim)}

\* the angles setRotation hands to rotateImage: normalized and not 0
RotateAngles == {90, 180, 270}

ChainOps == {"image", "rotateImage", "flipImageVertically"}

\* the sprite's image does not depend on the bitmap at hand: the sprite
\* operations are called before the pixel functions are
SpriteOps == {"image", "setRotation", "setVerticalFlip"}

InitImage ==
  /\ spriteData = [s \in Sprites |-> Null]
  /\ lastValidLeftState = FALSE
  /\ lastValidRightState = FALSE
  /\ inputProtectionEnabled = FALSE
  /\ sprites = [s \in Sprites |-> [image |-> StartImage(s), x |-> 0, y |-> 0]]
  /\ updateHandlers = <<>>
  /\ result \in Bitmaps
  /\ lastCall = [op |-> "image", img |-> Null, angle |-> 0, depth |-> 0,
                 prev |-> [op |-> "none", img |-> Null, angle |-> 0]]

\* the step of a chain: the function, its input and its angle are recorded,
\* with the step before it
ChainStep(op, angle) ==
  [op |-> op, img |-> result, angle |-> angle, depth |-> lastCall.depth + 1,
   prev |-> [op |-> lastCall.op, img |-> lastCall.img, angle |-> lastCall.angle]]

ApplyRotateImage(angleDegrees) ==
  /\ lastCall.op \in ChainOps
  /\ lastCall.depth < MaxChain
  /\ result' = rotateImage(result, angleDegrees, Fresh({result.ref}, NoSprite))
  /\ lastCall' = ChainStep("rotateImage", angleDegrees)
  /\ UNCHANGED <<spriteData, sprites, lastValidLeftState, lastValidRightState,
                 inputProtectionEnabled, updateHandlers>>

ApplyFlipImageVertically ==
  /\ lastCall.op \in ChainOps
  /\ lastCall.depth < MaxChain
  /\ result' = flipImageVertically(result, Fresh({result.ref}, NoSprite))
  /\ lastCall' = ChainStep("flipImageVertically", 0)
  /\ UNCHANGED <<spriteData, sprites, lastValidLeftState, lastValidRightState,
                 inputProtectionEnabled, updateHandlers>>

NextImage ==
  \/ \E a \in RotateAngles : ApplyRotateImage(a)
  \/ ApplyFlipImageVertically
  \/ \E a \in Angles, m \in Margins :
       lastCall.op = "image" /\ CallRotateImageByDegrees(result, a, m)
  \/ \E q \in Positions, o \in Angles, m \in Margins :
       /\ lastCall.op = "image"
       /\ CallRotateImageFromToWithOffset(result, <<0, 0>>, q, o, m)
  \/ \E a \in RotateAngles \cup {0} :
       lastCall.op \in SpriteOps /\ CallSetRotation(1, a)
  \/ \E f \in BOOLEAN :
       lastCall.op \in SpriteOps /\ CallSetVerticalFlip(1, f, FALSE, FALSE)

SpecImage == InitImage /\ [][NextImage]_vars

\* ------------------------------------------------------------- properties
CurrentRotation(s) == IF spriteData[s] = Null THEN 0 ELSE spriteData[s].currentRotation

CachedOutput(s) == IF spriteData[s] = Null THEN Null ELSE spriteData[s].transformedImage

\* what the table entry of a sprite stands for: its original, flipped when
\* the flag is set, then rotated by the rotation
Transform(original, rotationDegrees, flippedVertically) ==
  LET flipped == IF flippedVertically
                 THEN flipImageVertically(original, original.ref) ELSE original
  IN IF rotationDegrees # 0
     THEN rotateImage(flipped, rotationDegrees, original.ref) ELSE flipped

\* the same with the two steps in the other order
RotateThenFlip(original, rotationDegrees, flippedVertically) ==
  LET rotated == IF rotationDegrees # 0
                 THEN rotateImage(original, rotationDegrees, original.ref)
                 ELSE original
  IN IF flippedVertically THEN flipImageVertically(rotated, original.ref) ELSE rotated

\* the angle rotateTowardsWithOffset asks for, from the positions in sprites
BearingPlusOffset(sprite1, sprite2, offset) ==
  Atan2Deg(sprites[sprite2].y - sprites[sprite1].y,
           sprites[sprite2].x - sprites[sprite1].x) + offset

\* C1: in every state reached by setRotation, setVerticalFlip,
\* rotateTowardsWithOffset and ticks, the image a tracked sprite displays and
\* its cached output (when there is one) have the pixels of the transform of
\* its original under its current rotation and flip: nothing is left over
\* from an earlier output.
C1_NeverStale ==
  \A s \in Sprites :
    spriteData[s] # Null =>
      LET d == spriteData[s]
          t == Transform(d.originalImage, d.currentRotation, d.isFlippedY)
      IN /\ SamePixels(sprites[s].image, t)
         /\ d.transformedImage # Null => SamePixels(d.transformedImage, t)

\* a tick has just set sprite 1, flipped, to a rotation of 180 degrees
C1_Witness ==
  /\ lastCall.op = "tick"
  /\ spriteData[1] # Null
  /\ spriteData[1].currentRotation = 180
  /\ spriteData[1].isFlippedY
  /\ spriteData[1].transformedImage # Null

\* C2 (as stated): a recomputation by setRotation or setVerticalFlip with a
\* rotation other than 0 and the flip set leaves the original rotated first
\* and flipped afterwards.
C2_RotateThenFlip_Original ==
  [][\A s \in Sprites :
       (/\ lastCall'.op \in {"setRotation", "setVerticalFlip"}
        /\ lastCall'.sprite = s
        /\ CachedOutput(s)' # CachedOutput(s)
        /\ CurrentRotation(s)' # 0
        /\ spriteData'[s].isFlippedY)
       => LET d == spriteData'[s]
          IN SamePixels(d.transformedImage,
                        RotateThenFlip(d.originalImage, d.currentRotation, TRUE))]_vars

\* C2 (amended): a recomputation by setRotation or setVerticalFlip with a
\* rotation other than 0 and the flip set flips the original first and
\* rotates the flipped image afterwards.
C2_FlipThenRotate ==
  [][\A s \in Sprites :
       (/\ lastCall'.op \in {"setRotation", "setVerticalFlip"}
        /\ lastCall'.sprite = s
        /\ CachedOutput(s)' # CachedOutput(s)
        /\ CurrentRotation(s)' # 0
        /\ spriteData'[s].isFlippedY)
       => LET d == spriteData'[s]
          IN SamePixels(d.transformedImage,
                        rotateImage(flipImageVertically(d.originalImage, <<0, 0>>),
                                    d.currentRotation, <<0, 0>>))]_vars

\* setVerticalFlip has just recomputed a sprite that is rotated by 90 degrees
C2_Witness ==
  /\ lastCall.op = "setVerticalFlip"
  /\ lastCall.sprite # NoSprite
  /\ spriteData[lastCall.sprite] # Null
  /\ spriteData[lastCall.sprite].isFlippedY
  /\ spriteData[lastCall.sprite].currentRotation = 90
  /\ sprites[lastCall.sprite].image = spriteData[lastCall.sprite].transformedImage

\* C3: a setRotation call makes a new cached output, and replaces the
\* displayed image, exactly when the requested angle modulo 360 differs from
\* the current rotation (0 for a sprite without an entry); the tick of a
\* single callback whose bearing plus offset is the current rotation leaves
\* the cached output the same object.
C3_RecomputeIffChanged ==
  [][\A s \in Sprites :
       /\ (lastCall'.op = "setRotation" /\ lastCall'.sprite = s) =>
            LET differs == (lastCall'.angle % 360) # CurrentRotation(s)
            IN /\ (CachedOutput(s)' # CachedOutput(s)) <=> differs
               /\ (sprites'[s].image # sprites[s].image) <=> differs
       /\ (/\ lastCall'.op = "tick"
           /\ Len(updateHandlers) = 1
           /\ updateHandlers[1].sprite1 = s
           /\ BearingPlusOffset(s, updateHandlers[1].sprite2,
                                updateHandlers[1].offset) % 360 = CurrentRotation(s))
          => /\ CachedOutput(s)' = CachedOutput(s)
             /\ sprites'[s].image = sprites[s].image]_vars

\* setRotation(sprite, 360) has just been called on a sprite that is at
\* rotation 0 and has a cached output
C3_Witness ==
  /\ lastCall.op = "setRotation"
  /\ lastCall.sprite # NoSprite
  /\ lastCall.angle = 360
  /\ spriteData[lastCall.sprite] # Null
  /\ spriteData[lastCall.sprite].currentRotation = 0
  /\ spriteData[lastCall.sprite].transformedImage # Null

\* C4: the rotation of every tracked sprite is in [0, 360), and after
\* setRotation(sprite, angle) it is the angle modulo 360, for negative
\* angles and for angles of 360 and more as well.
C4_Normalized ==
  \A s \in Sprites :
    spriteData[s] # Null =>
      /\ spriteData[s].currentRotation >= 0
      /\ spriteData[s].currentRotation < 360
      /\ (lastCall.op = "setRotation" /\ lastCall.sprite = s)
           => spriteData[s].currentRotation = lastCall.angle % 360

\* setRotation has just been called with a negative angle
C4_Witness ==
  /\ lastCall.op = "setRotation"
  /\ lastCall.sprite # NoSprite
  /\ lastCall.angle < 0
  /\ spriteData[lastCall.sprite].currentRotation = 270

\* C5: with input protection enabled and both left and right pressed, a
\* setVerticalFlip call on any sprite with any value changes nothing: no
\* entry is made, no field of an entry changes, the cached output and the
\* displayed image stay the same objects.
C5_VetoedFlipIsNoOp ==
  [][(/\ lastCall'.op = "setVerticalFlip"
      /\ lastCall'.sprite # NoSprite
      /\ inputProtectionEnabled
      /\ lastCall'.left
      /\ lastCall'.right)
     => /\ spriteData' = spriteData
        /\ sprites' = sprites]_vars

\* setVerticalFlip(sprite 1, true) has just been called with both inputs
\* pressed and protection on, and sprite 1 has no entry
C5_Witness ==
  /\ lastCall.op = "setVerticalFlip"
  /\ lastCall.sprite = 1
  /\ lastCall.flipped
  /\ inputProtectionEnabled
  /\ lastCall.left
  /\ lastCall.right
  /\ spriteData[1] = Null

\* C6: input protection is off at the start, only enableInputProtection
\* turns it on and nothing turns it off; a setVerticalFlip call on a sprite
\* is vetoed exactly when protection is on and both inputs are pressed at the
\* call, whatever lastValidLeftState and lastValidRightState hold, and a call
\* that is not vetoed leaves the flip flag as requested.
C6_GuardRule ==
  /\ ~inputProtectionEnabled
  /\ [][/\ (inputProtectionEnabled' # inputProtectionEnabled)
             => (lastCall'.op = "enableInputProtection" /\ inputProtectionEnabled')
        /\ \A s \in Sprites :
             (lastCall'.op = "setVerticalFlip" /\ lastCall'.sprite = s)
             => /\ lastCall'.allowed
                     <=> ~(inputProtectionEnabled /\ lastCall'.left /\ lastCall'.right)
                /\ lastCall'.allowed
                     => /\ spriteData'[s] # Null
                        /\ spriteData'[s].isFlippedY = lastCall'.flipped
                /\ ~lastCall'.allowed => spriteData'[s] = spriteData[s]]_vars

\* a setVerticalFlip call has just been vetoed although a single direction
\* was seen before it
C6_Witness ==
  /\ lastCall.op = "setVerticalFlip"
  /\ lastCall.sprite # NoSprite
  /\ ~lastCall.allowed
  /\ lastValidLeftState
  /\ inputProtectionEnabled

\* the callbacks registered for a source sprite
HandlersOf(s) == {i \in DOMAIN updateHandlers : updateHandlers[i].sprite1 = s}

\* C7: continuouslyRotateTowardsWithOffset with both sprites present sets the
\* source's rotation at once to the bearing to the target plus the offset,
\* modulo 360, and registers one callback; no step removes or changes a
\* registered callback; after every tick a source with a single registration
\* has the rotation given by the positions at that tick, whatever setRotation
\* did to it between the ticks.
C7_TracksEveryTick ==
  [][/\ Len(updateHandlers') >= Len(updateHandlers)
     /\ SubSeq(updateHandlers', 1, Len(updateHandlers)) = updateHandlers
     /\ \A s \in Sprites :
          /\ (/\ lastCall'.op = "continuouslyRotateTowardsWithOffset"
              /\ lastCall'.sprite = s
              /\ lastCall'.sprite2 # NoSprite)
             => /\ updateHandlers' =
                     Append(updateHandlers,
                            [sprite1 |-> s, sprite2 |-> lastCall'.sprite2,
                             offset |-> lastCall'.angle])
                /\ CurrentRotation(s)' =
                     BearingPlusOffset(s, lastCall'.sprite2, lastCall'.angle) % 360
          /\ (lastCall'.op = "tick" /\ Cardinality(HandlersOf(s)) = 1)
             => LET h == updateHandlers[CHOOSE i \in HandlersOf(s) : TRUE]
                IN CurrentRotation(s)' =
                     BearingPlusOffset(s, h.sprite2, h.offset) % 360]_vars

\* a tick has just turned sprite 1, whose single callback has offset 90, to
\* face a target that is below it
C7_Witness ==
  /\ lastCall.op = "tick"
  /\ Len(updateHandlers) = 1
  /\ updateHandlers[1].sprite1 = 1
  /\ updateHandlers[1].offset = 90
  /\ sprites[2].y < sprites[1].y
  /\ sprites[2].x = sprites[1].x
  /\ spriteData[1] # Null
  /\ spriteData[1].currentRotation = 0
  /\ spriteData[1].transformedImage # Null

\* C8: getRotatedImage changes no entry and no displayed image, and its
\* result is a new object: not the cached output, not the original, not the
\* displayed image of any sprite. The result has the pixels of the cached
\* output when there is one, of the original when there is an entry without
\* cached output, and of the displayed image when there is no entry.
C8_ReadOnlyFreshCopy ==
  [][\A s \in Sprites :
       (lastCall'.op = "getRotatedImage" /\ lastCall'.sprite = s)
       => /\ spriteData' = spriteData
          /\ sprites' = sprites
          /\ result' # Null
          /\ result'.ref \notin LiveRefs
          /\ IF spriteData[s] = Null
             THEN SamePixels(result', sprites[s].image)
             ELSE IF spriteData[s].transformedImage # Null
             THEN SamePixels(result', spriteData[s].transformedImage)
             ELSE SamePixels(result', spriteData[s].originalImage)]_vars

\* getRotatedImage has just been called on a flipped sprite at rotation 90:
\* the result has the pixels of the cached output and is another object
C8_Witness ==
  /\ lastCall.op = "getRotatedImage"
  /\ lastCall.sprite # NoSprite
  /\ spriteData[lastCall.sprite] # Null
  /\ spriteData[lastCall.sprite].currentRotation = 90
  /\ spriteData[lastCall.sprite].isFlippedY
  /\ spriteData[lastCall.sprite].transformedImage # Null
  /\ result # Null
  /\ result.ref # spriteData[lastCall.sprite].transformedImage.ref
  /\ SamePixels(result, spriteData[lastCall.sprite].transformedImage)

\* C9: a call with an absent sprite or image does nothing: setRotation,
\* setVerticalFlip, rotateTowardsWithOffset and
\* continuouslyRotateTowardsWithOffset change no entry, no sprite, no guard
\* state and register no callback; getRotatedImage, rotateImageByDegrees and
\* rotateImageFromToWithOffset return null.
C9_AbsentIsNoOp ==
  [][/\ (/\ lastCall'.op \in {"setRotation", "setVerticalFlip"}
         /\ lastCall'.sprite = NoSprite)
        => UNCHANGED <<spriteData, sprites, updateHandlers, lastValidLeftState,
                       lastValidRightState, inputProtectionEnabled>>
     /\ (/\ lastCall'.op \in {"rotateTowardsWithOffset",
                              "continuouslyRotateTowardsWithOffset"}
         /\ (lastCall'.sprite = NoSprite \/ lastCall'.sprite2 = NoSprite))
        => UNCHANGED <<spriteData, sprites, updateHandlers, lastValidLeftState,
                       lastValidRightState, inputProtectionEnabled>>
     /\ (lastCall'.op = "getRotatedImage" /\ lastCall'.sprite = NoSprite)
        => result' = Null
     /\ (/\ lastCall'.op \in {"rotateImageByDegrees", "rotateImageFromToWithOffset"}
         /\ lastCall'.img = Null)
        => result' = Null]_vars

\* continuouslyRotateTowardsWithOffset has just been called without a target
\* while sprite 1 is tracked and a callback is registered
C9_Witness ==
  /\ lastCall.op = "continuouslyRotateTowardsWithOffset"
  /\ lastCall.sprite = 1
  /\ lastCall.sprite2 = NoSprite
  /\ spriteData[1] # Null
  /\ Len(updateHandlers) = 1

\* C10 (as stated): rotateImage by an angle of 90, 180 or 270 degrees
\* followed by rotateImage of the result by 360 minus that angle gives back
\* an image with the width, the height and every pixel of the image the
\* first rotation was given.
C10_RoundTrip_Original ==
  (/\ lastCall.op = "rotateImage"
   /\ lastCall.prev.op = "rotateImage"
   /\ lastCall.angle = 360 - lastCall.prev.angle)
  => /\ result.width = lastCall.prev.img.width
     /\ result.height = lastCall.prev.img.height
     /\ SamePixels(result, lastCall.prev.img)

\* C11 (as stated): rotateImage of a w x h image by 90 or 270 degrees gives
\* an h x w image, and by 180 degrees a w x h image, the values of
\* ceil(|w cos| + |h sin|) x ceil(|w sin| + |h cos|) at those angles.
C11_Dimensions_Original ==
  lastCall.op = "rotateImage"
  => IF lastCall.angle = 180
     THEN /\ result.width = lastCall.img.width
          /\ result.height = lastCall.img.height
     ELSE /\ result.width = lastCall.img.height
          /\ result.height = lastCall.img.width

\* C12: rotateImageByDegrees of a w x h image with margin m gives an image
\* of (w + 2 max(0, m)) x (h + 2 max(0, m)) for every angle: the size does
\* not depend on the angle and a negative margin counts as 0.
C12_MarginCanvas ==
  (lastCall.op = "rotateImageByDegrees" /\ lastCall.img # Null)
  => LET m == IF lastCall.margin > 0 THEN lastCall.margin ELSE 0
     IN /\ result # Null
        /\ result.width = lastCall.img.width + 2 * m
        /\ result.height = lastCall.img.height + 2 * m

\* rotateImageByDegrees has just turned a 2 x 1 image by 90 degrees with
\* margin -1
C12_Witness ==
  /\ lastCall.op = "rotateImageByDegrees"
  /\ lastCall.img # Null
  /\ lastCall.img.width = 2
  /\ lastCall.img.height = 1
  /\ lastCall.angle = 90
  /\ lastCall.margin < 0
  /\ result.width = 2
  /\ result.height = 1

\* C13: rotateImageFromToWithOffset with the two points equal returns a new
\* image with the size and every pixel of its input, for every offset and
\* every margin: no offset is applied and no margin is added.
C13_SamePointCopies ==
  (/\ lastCall.op = "rotateImageFromToWithOffset"
   /\ lastCall.img # Null
   /\ lastCall.from = lastCall.to)
  => /\ result # Null
     /\ SamePixels(result, lastCall.img)
     /\ result.ref # lastCall.img.ref

\* rotateImageFromToWithOffset has just been called on a 2 x 1 image that is
\* not uniform, with equal points, offset 90 and a margin of 1
C13_Witness ==
  /\ lastCall.op = "rotateImageFromToWithOffset"
  /\ lastCall.img # Null
  /\ lastCall.from = lastCall.to
  /\ lastCall.angle = 90
  /\ lastCall.margin = MaxMargin
  /\ lastCall.img.width = 2
  /\ lastCall.img.height = 1
  /\ lastCall.img.px[<<0, 0>>] # lastCall.img.px[<<1, 0>>]
  /\ result.width = 2

\* the bearing in degrees, in [0, 360), of a direction along an axis: 0 to
\* the right, 90 down the screen (y grows), 180 to the left, 270 up; 0 for
\* no direction, as Math.atan2(0, 0)
AxisBearing(dx, dy) ==
  CASE dy = 0 /\ dx >= 0 -> 0
    [] dx = 0 /\ dy > 0 -> 90
    [] dy = 0 /\ dx < 0 -> 180
    [] dx = 0 /\ dy < 0 -> 270

\* C14: rotateTowardsWithOffset(source, target, offset) leaves the source's
\* rotation at the bearing from the source's to the target's position at the
\* call plus the offset, modulo 360 (target to the right 0, below 90, to the
\* left 180, above 270), and changes neither the entry nor the sprite of any
\* other sprite.
C14_Bearing ==
  [][\A s \in Sprites :
       (/\ lastCall'.op = "rotateTowardsWithOffset"
        /\ lastCall'.sprite = s
        /\ lastCall'.sprite2 # NoSprite)
       => /\ CurrentRotation(s)' =
               (AxisBearing(sprites[lastCall'.sprite2].x - sprites[s].x,
                            sprites[lastCall'.sprite2].y - sprites[s].y)
                  + lastCall'.angle) % 360
          /\ \A u \in Sprites \ {s} :
               /\ spriteData'[u] = spriteData[u]
               /\ sprites'[u] = sprites[u]]_vars

\* rotateTowardsWithOffset has just aimed sprite 1, at the origin, with
\* offset 0 at sprite 2 at (0, -10): rotation 270
C14_Witness ==
  /\ lastCall.op = "rotateTowardsWithOffset"
  /\ lastCall.sprite = 1
  /\ lastCall.sprite2 = 2
  /\ lastCall.angle = 0
  /\ <<sprites[1].x, sprites[1].y>> = <<0, 0>>
  /\ <<sprites[2].x, sprites[2].y>> = <<0, 0 - 10>>
  /\ spriteData[1] # Null
  /\ spriteData[1].currentRotation = 270

\* what flipImageVertically must have done in a chain of the pixel
\* functions: same size, pixel (x, y) taken from (x, height - 1 - y), and
\* after two flips in a row the image the first was given
FlipIsInvolution ==
  lastCall.op = "flipImageVertically"
  => /\ result.width = lastCall.img.width
     /\ result.height = lastCall.img.height
     /\ \A p \in Coords(result.width, result.height) :
          result.px[p] = lastCall.img.px[<<p[1], lastCall.img.height - 1 - p[2]>>]
     /\ lastCall.prev.op = "flipImageVertically"
          => SamePixels(result, lastCall.prev.img)

\* C15 (as stated): flipImageVertically keeps the size, takes pixel (x, y)
\* from (x, height - 1 - y) and undoes itself; setVerticalFlip(e, true)
\* followed by setVerticalFlip(e, false), neither vetoed, leaves the
\* displayed image with the pixels it had before the first call.
C15_FlipRoundTrip_Original ==
  /\ []FlipIsInvolution
  /\ [][\A s \in Sprites :
          (/\ lastCall.op = "setVerticalFlip"
           /\ lastCall.sprite = s
           /\ lastCall.flipped
           /\ lastCall.allowed
           /\ lastCall'.op = "setVerticalFlip"
           /\ lastCall'.sprite = s
           /\ ~lastCall'.flipped
           /\ lastCall'.allowed)
          => SamePixels(sprites'[s].image, lastCall.shown)]_vars

\* C15 (amended): the same, for a sprite whose flip was not set before the
\* first of the two calls.
C15_FlipRoundTrip ==
  /\ []FlipIsInvolution
  /\ [][\A s \in Sprites :
          (/\ lastCall.op = "setVerticalFlip"
           /\ lastCall.sprite = s
           /\ lastCall.flipped
           /\ lastCall.allowed
           /\ ~lastCall.was
           /\ lastCall'.op = "setVerticalFlip"
           /\ lastCall'.sprite = s
           /\ ~lastCall'.flipped
           /\ lastCall'.allowed)
          => SamePixels(sprites'[s].image, lastCall.shown)]_vars

\* setVerticalFlip(sprite 1, false) has just taken back the flip of sprite 1,
\* which is rotated by 90 degrees
C15_Witness ==
  /\ lastCall.op = "setVerticalFlip"
  /\ lastCall.sprite = 1
  /\ ~lastCall.flipped
  /\ lastCall.was
  /\ lastCall.allowed
  /\ spriteData[1] # Null
  /\ spriteData[1].currentRotation = 90
  /\ ~spriteData[1].isFlippedY
  /\ ~SamePixels(sprites[1].image, lastCall.shown)

\* C16: a setRotation or setVerticalFlip call leaves the sprite at the
\* position it had before the call, whether the call recomputes or not and
\* whether or not the host moves a sprite whose image is replaced.
C16_PositionKept ==
  [][\A s \in Sprites :
       (/\ lastCall'.op \in {"setRotation", "setVerticalFlip"}
        /\ lastCall'.sprite = s)
       => /\ sprites'[s].x = sprites[s].x
          /\ sprites'[s].y = sprites[s].y]_vars

\* setRotation(sprite, 90) has just replaced the image of a sprite, which is
\* not at the point the host resets a sprite to
C16_Witness ==
  /\ lastCall.op = "setRotation"
  /\ lastCall.sprite # NoSprite
  /\ lastCall.angle = 90
  /\ spriteData[lastCall.sprite] # Null
  /\ sprites[lastCall.sprite].image = spriteData[lastCall.sprite].transformedImage
  /\ <<sprites[lastCall.sprite].x, sprites[lastCall.sprite].y>> # ScreenCentre

\* the operations that end in setRotation or setVerticalFlip on their first
\* sprite argument
EntryMakers ==
  {"setRotation", "setVerticalFlip", "rotateTowardsWithOffset",
   "continuouslyRotateTowardsWithOffset"}

\* C17: an entry appears only in a setRotation or setVerticalFlip call on
\* that sprite that is not vetoed (directly or through the tracking
\* operations); its original is a new object with the pixels of the image
\* displayed before the call, and apart from what the call asked for it has
\* rotation 0, no flip and no cached output. No step changes or replaces the
\* original of an entry, and no step removes an entry.
C17_EntryLifecycle ==
  [][\A s \in Sprites :
       /\ spriteData[s] # Null
          => /\ spriteData'[s] # Null
             /\ spriteData'[s].originalImage = spriteData[s].originalImage
       /\ (spriteData[s] = Null /\ spriteData'[s] # Null)
          => LET d == spriteData'[s]
             IN /\ lastCall'.op \in EntryMakers
                /\ lastCall'.sprite = s
                /\ SamePixels(d.originalImage, sprites[s].image)
                /\ d.originalImage.ref \notin LiveRefs
                /\ IF lastCall'.op = "setVerticalFlip"
                   THEN /\ lastCall'.allowed
                        /\ d.currentRotation = 0
                        /\ d.isFlippedY = lastCall'.flipped
                        /\ (d.transformedImage = Null) <=> ~d.isFlippedY
                   ELSE /\ ~d.isFlippedY
                        /\ (d.transformedImage = Null) <=> (d.currentRotation = 0)]_vars

\* a tick has just replaced the displayed image of sprite 1, flipped and
\* rotated by 180 degrees, and its original still has the pixels sprite 1
\* started with
C17_Witness ==
  /\ lastCall.op = "tick"
  /\ spriteData[1] # Null
  /\ spriteData[1].currentRotation = 180
  /\ spriteData[1].isFlippedY
  /\ sprites[1].image = spriteData[1].transformedImage
  /\ ~SamePixels(sprites[1].image, spriteData[1].originalImage)
  /\ SamePixels(spriteData[1].originalImage, StartImage(1))

\* C18: a tracked sprite without cached output has rotation 0 and no flip;
\* so getRotatedImage on such a sprite returns a new image with the pixels
\* of the original; and a cached output, once there, is there in every later
\* state, also when rotation and flip are back at 0 and false.
C18_NoCacheMeansIdentity ==
  /\ [](\A s \in Sprites :
          (spriteData[s] # Null /\ spriteData[s].transformedImage = Null)
          => (spriteData[s].currentRotation = 0 /\ ~spriteData[s].isFlippedY))
  /\ [][\A s \in Sprites :
          /\ CachedOutput(s) # Null => CachedOutput(s)' # Null
          /\ (/\ lastCall'.op = "getRotatedImage"
              /\ lastCall'.sprite = s
              /\ spriteData[s] # Null
              /\ spriteData[s].transformedImage = Null)
             => /\ SamePixels(result', spriteData[s].originalImage)
                /\ result'.ref # spriteData[s].originalImage.ref]_vars

\* getRotatedImage has just been called on a sprite that has an entry and
\* no cached output
C18_Witness ==
  /\ lastCall.op = "getRotatedImage"
  /\ lastCall.sprite # NoSprite
  /\ spriteData[lastCall.sprite] # Null
  /\ spriteData[lastCall.sprite].transformedImage = Null
  /\ result # Null

\* C19: input protection holds back setVerticalFlip only. With protection
\* on, whatever the controller reports, setRotation, rotateTowardsWithOffset
\* and the tick of a single callback leave the rotation they ask for,
\* replace the displayed image when that rotation is new, and leave
\* inputProtectionEnabled, lastValidLeftState and lastValidRightState as
\* they were.
C19_GuardGatesOnlyFlip ==
  [][\A s \in Sprites :
       LET Done(angle) ==
             /\ spriteData'[s] # Null
             /\ spriteData'[s].currentRotation = angle % 360
             /\ (sprites'[s].image # sprites[s].image)
                  <=> (angle % 360 # CurrentRotation(s))
             /\ sprites'[s].image # sprites[s].image
                  => sprites'[s].image = spriteData'[s].transformedImage
             /\ UNCHANGED <<inputProtectionEnabled, lastValidLeftState,
                            lastValidRightState>>
       IN /\ (/\ inputProtectionEnabled
              /\ lastCall'.op = "setRotation"
              /\ lastCall'.sprite = s)
             => Done(lastCall'.angle)
          /\ (/\ inputProtectionEnabled
              /\ lastCall'.op = "rotateTowardsWithOffset"
              /\ lastCall'.sprite = s
              /\ lastCall'.sprite2 # NoSprite)
             => Done(BearingPlusOffset(s, lastCall'.sprite2, lastCall'.angle))
          /\ (/\ inputProtectionEnabled
              /\ lastCall'.op = "tick"
              /\ Cardinality(HandlersOf(s)) = 1)
             => LET h == updateHandlers[CHOOSE i \in HandlersOf(s) : TRUE]
                IN Done(BearingPlusOffset(s, h.sprite2, h.offset))]_vars

\* with protection on and a single direction seen before, a tick has just
\* turned sprite 1 to 90 degrees and replaced its image
C19_Witness ==
  /\ inputProtectionEnabled
  /\ lastValidLeftState
  /\ lastCall.op = "tick"
  /\ Len(updateHandlers) = 1
  /\ spriteData[1] # Null
  /\ spriteData[1].currentRotation = 90
  /\ sprites[1].image = spriteData[1].transformedImage

\* C20: every continuouslyRotateTowardsWithOffset call with both sprites
\* present appends a callback and keeps the earlier ones; a tick runs them
\* in the order of registration, so the source ends the tick at the rotation
\* asked for by the callback registered last; with two callbacks for a
\* source that ask for different rotations, every tick replaces the cached
\* output and the displayed image, although no sprite has moved.
C20_CallbacksAccumulate ==
  [][\A s \in Sprites :
       /\ (/\ lastCall'.op = "continuouslyRotateTowardsWithOffset"
           /\ lastCall'.sprite = s
           /\ lastCall'.sprite2 # NoSprite)
          => updateHandlers' =
               Append(updateHandlers,
                      [sprite1 |-> s, sprite2 |-> lastCall'.sprite2,
                       offset |-> lastCall'.angle])
       /\ (lastCall'.op = "tick" /\ HandlersOf(s) # {})
          => LET last == CHOOSE i \in HandlersOf(s) : \A j \in HandlersOf(s) : j <= i
                 Asked(i) == BearingPlusOffset(s, updateHandlers[i].sprite2,
                                               updateHandlers[i].offset) % 360
             IN /\ CurrentRotation(s)' = Asked(last)
                /\ (/\ Cardinality(HandlersOf(s)) = 2
                    /\ \E i \in HandlersOf(s) : Asked(i) # Asked(last))
                   => /\ CachedOutput(s)' # CachedOutput(s)
                      /\ sprites'[s].image # sprites[s].image
                      /\ sprites'[s].image = CachedOutput(s)']_vars

\* a tick has just run two callbacks of sprite 1 with different offsets, and
\* sprite 1 has the rotation the second one asks for
C20_Witness ==
  /\ lastCall.op = "tick"
  /\ Len(updateHandlers) = 2
  /\ updateHandlers[1].sprite1 = 1
  /\ updateHandlers[2].sprite1 = 1
  /\ updateHandlers[1].offset = 90
  /\ updateHandlers[2].offset = 0
  /\ spriteData[1] # Null
  /\ spriteData[1].currentRotation = BearingPlusOffset(1, 2, 0) % 360
  /\ sprites[1].image = spriteData[1].transformedImage

====
